---- MODULE Spec2Model ----
(***************************************************************************)
(* FoldStateManager (app/scripts/services/fold-state-manager.js): the      *)
(* fold state of the nodes of the editor's tree, kept in an object tree    *)
(* and in localStorage under the key 'foldState'.                          *)
(*                                                                         *)
(* An object of the tree is addressed by the sequence of keys that leads   *)
(* to it from the foldState object; the tree is a function from those      *)
(* addresses to [props, folded]: props are the object's own property names *)
(* in insertion order (what Object.keys returns, "$folded" included), and  *)
(* folded is the value of its $folded property: "true", "false", or        *)
(* "undefined" when the object has no such property.                       *)
(***************************************************************************)
EXTENDS Integers, Sequences, FiniteSets

VARIABLES foldState, defaultAliased, localStorage, changeListeners, registered,
          argument, ncalls, last

vars == <<foldState, defaultAliased, localStorage, changeListeners, registered,
          argument, ncalls, last>>

\* ---------------------------------------------------------------- bounds

\* Calls made to one store before the model stops, those of onFoldChanged apart.
MaxCalls == 2

\* Calls of onFoldChanged made to one store.
MaxRegistrations == 2

\* ------------------------------------------------------------- JS values

Wildcard == "*"

Marker == "$folded"

Undefined == "undefined"

\* localStorage.getItem of a key that was never set.
Null == <<"null">>

\* JavaScript's !v for v a $folded value (undefined is falsy).
Not(v) == IF v = "true" THEN "false" ELSE "true"

\* {$folded: false}
NewNode == [props |-> <<Marker>>, folded |-> "false"]

Range(s) == {s[i] : i \in 1..Len(s)}

\* Object.keys(node) without the "$folded" key, in order.
RECURSIVE ChildKeys(_)
ChildKeys(props) ==
  IF props = <<>> THEN <<>>
  ELSE IF Head(props) = Marker THEN ChildKeys(Tail(props))
  ELSE <<Head(props)>> \o ChildKeys(Tail(props))

\* node[key] is an object (truthy).
HasChild(tree, node, key) == Append(node, key) \in DOMAIN tree

\* previus[key] = {$folded: false}, for a key the object does not have.
AddChild(tree, node, key) ==
  [q \in DOMAIN tree \cup {Append(node, key)} |->
     IF q = Append(node, key) THEN NewNode
     ELSE IF q = node THEN [tree[q] EXCEPT !.props = Append(@, key)]
     ELSE tree[q]]

\* node.$folded = value
SetFolded(tree, node, value) ==
  [tree EXCEPT ![node] =
     [props |-> IF Marker \in Range(@.props) THEN @.props ELSE Append(@.props, Marker),
      folded |-> value]]

\* ------------------------------------------------------------ defaultState

Sections == <<"info", "securityDefinitions", "tags", "paths", "definitions">>

\* The object literal of defaultState: one property, foldState, that holds the
\* five sections; neither the literal nor its foldState object has a $folded.
DefaultTree ==
  [q \in {<<>>, <<"foldState">>} \cup {<<"foldState", Sections[i]>> : i \in 1..Len(Sections)} |->
     IF q = <<>> THEN [props |-> <<"foldState">>, folded |-> Undefined]
     ELSE IF q = <<"foldState">> THEN [props |-> Sections, folded |-> Undefined]
     ELSE NewNode]

\* -------------------------------------------------------------- JSON

\* JSON.stringify(tree): the text as its tokens, punctuation left out. A property
\* is written in insertion order; $folded is followed by its value, any other
\* key by the object it holds.
RECURSIVE StringifyNode(_, _), StringifyProps(_, _, _)
StringifyNode(tree, node) ==
  <<"{">> \o StringifyProps(tree, node, tree[node].props) \o <<"}">>

\* StringifyProps of a serializer that leaves out the keys that start with $.
StringifyPropsPlain(tree, node, props) ==
  IF props = <<>> THEN <<>>
  ELSE (IF Head(props) = Marker
          THEN <<>>
          ELSE <<Head(props)>> \o StringifyNode(tree, Append(node, Head(props))))
       \o StringifyProps(tree, node, Tail(props))

StringifyProps(tree, node, props) ==
  IF props = <<>> THEN <<>>
  ELSE (IF Head(props) = Marker
          THEN <<Marker, tree[node].folded>>
          ELSE <<Head(props)>> \o StringifyNode(tree, Append(node, Head(props))))
       \o StringifyProps(tree, node, Tail(props))

Stringify(tree) == StringifyNode(tree, <<>>)

\* JSON.parse of an object's members from token i on, the object being built at
\* address node of tree: [tree, next, threw], next the token after the closing
\* brace, threw when the text ends early or a token is not what JSON allows
\* there (a SyntaxError).
RECURSIVE ParseMembers(_, _, _, _)
ParseMembers(toks, i, node, tree) ==
  IF i > Len(toks) THEN [tree |-> tree, next |-> i, threw |-> TRUE]
  ELSE IF toks[i] = "}" THEN [tree |-> tree, next |-> i + 1, threw |-> FALSE]
  ELSE IF i + 1 > Len(toks) \/ toks[i] = "{" THEN [tree |-> tree, next |-> i, threw |-> TRUE]
  ELSE IF toks[i] = Marker
    THEN IF toks[i + 1] \in {"true", "false"}
           THEN ParseMembers(toks, i + 2, node,
                  [tree EXCEPT ![node] = [props |-> Append(@.props, Marker),
                                          folded |-> toks[i + 1]]])
           ELSE [tree |-> tree, next |-> i, threw |-> TRUE]
    ELSE IF toks[i + 1] # "{" THEN [tree |-> tree, next |-> i, threw |-> TRUE]
    ELSE LET child == Append(node, toks[i])
             grown == [q \in DOMAIN tree \cup {child} |->
                         IF q = child THEN [props |-> <<>>, folded |-> Undefined]
                         ELSE IF q = node THEN [tree[q] EXCEPT !.props = Append(@, toks[i])]
                         ELSE tree[q]]
             sub == ParseMembers(toks, i + 2, child, grown)
         IN IF sub.threw THEN sub
            ELSE ParseMembers(toks, sub.next, node, sub.tree)

\* JSON.parse(text) for a text that starts an object: [tree, threw].
Parse(toks) ==
  LET members == ParseMembers(toks, 2, <<>>,
                   [q \in {<<>>} |-> [props |-> <<>>, folded |-> Undefined]])
  IN IF toks = <<>> \/ toks[1] # "{" \/ members.threw \/ members.next # Len(toks) + 1
       THEN [tree |-> <<>>, threw |-> TRUE]
       ELSE [tree |-> members.tree, threw |-> FALSE]

\* ------------------------------------------------------------ walkToNode

\* The while loop of walkToNode from object current with path still to consume:
\* [tree, node, threw, path], node the object returned and path what is left of
\* the caller's array (the loop shifts every key it reads off it).
RECURSIVE walkLoop(_, _, _)

\* The loop without line 55: it goes on from the object it has created.
walkLoopInto(tree, current, path) ==
  IF path = <<>> THEN [tree |-> tree, node |-> current, threw |-> FALSE, path |-> path]
  ELSE LET key == Head(path) IN
       IF key = Wildcard
         THEN [tree |-> tree, node |-> current, threw |-> TRUE, path |-> Tail(path)]
       ELSE IF HasChild(tree, current, key)
         THEN walkLoop(tree, Append(current, key), Tail(path))
         ELSE walkLoop(AddChild(tree, current, key), Append(current, key), Tail(path))

walkLoop(tree, current, path) ==
  IF path = <<>> THEN [tree |-> tree, node |-> current, threw |-> FALSE, path |-> path]
  ELSE LET key == Head(path) IN
       IF key = Wildcard
         THEN [tree |-> tree, node |-> current, threw |-> TRUE, path |-> Tail(path)]
       ELSE IF HasChild(tree, current, key)
         THEN walkLoop(tree, Append(current, key), Tail(path))
         ELSE walkLoop(AddChild(tree, current, key), current, Tail(path))

\* walkToNode over a copy of path (path.slice()): the caller's array is left as
\* it was.
walkToNodeCopy(tree, path) == [walkLoop(tree, <<>>, path) EXCEPT !.path = path]

walkToNode(tree, path) == walkLoop(tree, <<>>, path)

\* ------------------------------------------------- invokeChangeListeners

\* localStorage.setItem('foldState', JSON.stringify(foldState))
invokeChangeListeners(tree) == Stringify(tree)

\* -------------------------------------------------------------- changeFold

\* changeFold with `value === undefined` written `!value`: a value of false
\* toggles too.
changeFoldFalsy(tree, path, value) ==
  LET w == walkToNode(tree, path)
      v == IF value # "true" THEN Not(w.tree[w.node].folded) ELSE value
  IN IF w.threw
       THEN [tree |-> w.tree, threw |-> TRUE, node |-> w.node, value |-> value, saved |-> FALSE,
             left |-> w.path]
       ELSE [tree |-> SetFolded(w.tree, w.node, v), threw |-> FALSE, node |-> w.node,
             value |-> v, saved |-> TRUE, left |-> w.path]

\* changeFold(path, value), value Undefined for a toggle:
\* [tree, threw, node, value, saved, left], saved whether invokeChangeListeners
\* ran and left what walkToNode has left of the array path.
changeFold(tree, path, value) ==
  LET w == walkToNode(tree, path)
      v == IF value = Undefined THEN Not(w.tree[w.node].folded) ELSE value
  IN IF w.threw
       THEN [tree |-> w.tree, threw |-> TRUE, node |-> w.node, value |-> value, saved |-> FALSE,
             left |-> w.path]
       ELSE [tree |-> SetFolded(w.tree, w.node, v), threw |-> FALSE, node |-> w.node,
             value |-> v, saved |-> TRUE, left |-> w.path]

\* -------------------------------------------------------------- wildcards

Last(path) == IF path = <<>> THEN Undefined ELSE path[Len(path)]

\* path.indexOf('*'), counted from 1, for a path that holds a wildcard.
IndexOfWildcard(path) == CHOOSE i \in 1..Len(path) :
                            path[i] = Wildcard /\ \A j \in 1..(i - 1) : path[j] # Wildcard

\* path.slice(0, path.indexOf('*'))
PathToRoot(path) == SubSeq(path, 1, IndexOfWildcard(path) - 1)

\* path.slice(path.indexOf('*'))
RestOfPath(path) == SubSeq(path, IndexOfWildcard(path), Len(path))

\* What path.splice(start, deleteCount) returns, the elements it removes: a
\* delete count below 0 counts as 0, so nothing is removed and [] is returned.
Splice(path, start, deleteCount) ==
  LET n == IF deleteCount < 0 THEN 0
           ELSE IF deleteCount > Len(path) - start THEN Len(path) - start
           ELSE deleteCount
  IN SubSeq(path, start + 1, start + n)

\* The function toggleFoldAll hands to visit: node.$folded = !node.$folded
flip(tree, node) == SetFolded(tree, node, Not(tree[node].folded))

\* visit(path, fn) for toggleFoldAll's fn: [tree, threw]. walkToNode shifts
\* pathToRoot empty, and that emptied array is what the path for a child is
\* built from.
RECURSIVE visit(_, _), visitKeys(_, _, _, _)
visit(tree, path) ==
  IF Last(path) # Wildcard
    THEN LET w == walkToNode(tree, path)
         IN IF w.threw THEN [tree |-> w.tree, threw |-> TRUE]
            ELSE [tree |-> flip(w.tree, w.node), threw |-> FALSE]
    ELSE LET w == walkToNode(tree, PathToRoot(path))
         IN visitKeys(w.tree, w.tree[w.node].props, path, w.path)

\* Object.keys(root).forEach(...) over the keys still to visit; a call that
\* throws ends the loop.
visitKeys(tree, keys, path, pathToRoot) ==
  IF keys = <<>> THEN [tree |-> tree, threw |-> FALSE]
  ELSE IF Head(keys) = Marker THEN visitKeys(tree, Tail(keys), path, pathToRoot)
  ELSE LET w == walkToNode(tree, Splice(path, 0, -1) \o <<Head(keys)>>)
           done == IF w.threw THEN [tree |-> w.tree, threw |-> TRUE]
                   ELSE IF RestOfPath(path) = <<Wildcard>>
                     THEN [tree |-> flip(w.tree, w.node), threw |-> FALSE]
                     ELSE visit(w.tree,
                                pathToRoot \o <<Head(keys)>> \o Tail(RestOfPath(path)))
       IN IF done.threw THEN done
          ELSE visitKeys(done.tree, Tail(keys), path, pathToRoot)

\* isAllFolded(path): [tree, result], result "true", "false" or "Error".
RECURSIVE isAllFoldedOf(_, _), everyKey(_, _, _, _)
isAllFoldedOf(tree, path) ==
  IF Last(path) # Wildcard THEN [tree |-> tree, result |-> "Error"]
  ELSE LET w == walkToNode(tree, PathToRoot(path))
       IN everyKey(w.tree, w.tree[w.node].props, path, w.path)

\* Object.keys(root).every(...) over the keys still to test: it stops at the
\* first key whose test is false.
everyKey(tree, keys, path, pathToRoot) ==
  IF keys = <<>> THEN [tree |-> tree, result |-> "true"]
  ELSE IF Head(keys) = Marker THEN everyKey(tree, Tail(keys), path, pathToRoot)
  ELSE LET w == walkToNode(tree, Splice(path, 0, -1) \o <<Head(keys)>>)
           one == IF RestOfPath(path) = <<Wildcard>>
                    THEN [tree |-> w.tree, result |-> Not(w.tree[w.node].folded)]
                    ELSE isAllFoldedOf(w.tree,
                           pathToRoot \o <<Head(keys)>> \o Tail(RestOfPath(path)))
       IN IF one.result = "true" THEN everyKey(one.tree, Tail(keys), path, pathToRoot)
          ELSE one

\* ------------------------------------------------------------------ inputs

\* Keys callers address objects by.
Keys == {"paths", "a"}

\* Paths without a wildcard: the root's, a key's, and a key's under a key.
ConcretePaths == {<<>>} \cup {<<k>> : k \in Keys} \cup {<<j, k>> : j, k \in Keys}

\* Paths with wildcards: one or two at the end of a path of at most one key, and
\* one that is not at the end.
WildcardPaths ==
  {<<Wildcard>>, <<Wildcard, Wildcard>>}
  \cup {<<k, Wildcard>> : k \in Keys}
  \cup {<<k, Wildcard, Wildcard>> : k \in Keys}
  \cup {<<Wildcard, k>> : k \in Keys}

Paths == ConcretePaths \cup WildcardPaths

\* A path argument that is not an array (the string 'paths', say); no key is
\* spelled like it.
NotAnArray == <<"not an array">>

\* A test that lets every value pass.
isArrayAny(path) == TRUE

\* _.isArray(path)
isArray(path) == path # NotAnArray

\* The paths of the callers of NextCallers: a node's, one that ends with a
\* wildcard and one that has its wildcard first.
CallerPaths == {<<"paths">>, <<"a", Wildcard>>, <<Wildcard, "a">>}

\* Functions handed to onFoldChanged.
Callbacks == {"cb1", "cb2"}

\* What an earlier session left in localStorage: nothing, or the tree it saved.
RECURSIVE Resolved(_, _)
Resolved(tree, paths) ==
  IF paths = <<>> THEN tree
  ELSE Resolved(walkToNode(tree, Head(paths)).tree, Tail(paths))

\* The tree a: {x: {p, q}, y: {p, q}} as a session builds it from the default
\* state, a.x.p and a.y.q folded.
ChainSession ==
  LET built == Resolved(DefaultTree,
                 << <<"a">>, <<"a", "x">>, <<"a", "y">>,
                    <<"a", "x", "p">>, <<"a", "x", "q">>,
                    <<"a", "y", "p">>, <<"a", "y", "q">> >>)
  IN changeFold(changeFold(built, <<"a", "x", "p">>, "true").tree,
                <<"a", "y", "q">>, "true").tree

\* The tree of a session that resolved paths, paths.a and paths.x from the
\* default state and folded paths.a.
PathsSession ==
  changeFold(Resolved(DefaultTree, << <<"paths">>, <<"paths", "a">>, <<"paths", "x">> >>),
             <<"paths", "a">>, "true").tree

\* The tree of a session whose only call was fold(['a']).
FoldSession == changeFold(DefaultTree, <<"a">>, "true").tree

\* A text that is not JSON: {"paths":{"$folded":false with the rest cut off.
CutShort == <<"{", "paths", "{", Marker, "false">>

InitialStorage ==
  {Null, Stringify(ChainSession), Stringify(PathsSession), Stringify(FoldSession), CutShort}

\* ------------------------------------------------------------------ state

\* The $folded value of the object at address p, "none" when there is none.
FoldedAt(tree, p) == IF p \in DOMAIN tree THEN tree[p].folded ELSE "none"

\* defaultState: the object foldState was set to when nothing was stored, the
\* literal (never changed) otherwise.
defaultState == IF defaultAliased THEN foldState ELSE DefaultTree

\* The methods that end with invokeChangeListeners.
Mutators == {"fold", "unfold", "toggleFold", "toggleFoldAll"}

\* The record of a call: its name, the path it was given, what it returned
\* ("Error" when it threw), the callbacks it invoked, each with its number of
\* arguments, the objects walkToNode returned to fold, unfold, toggleFold or
\* isFolded, and the $folded value at the path before the call. When the call
\* before it was fold, unfold or toggleFold of the same path, after names that
\* call and before is the $folded value at the path before the two; they are
\* "-" otherwise. run tells what the calls so far were: "void" once one of them
\* threw or was reset, and else "mutated" once one of them was fold, unfold,
\* toggleFold or toggleFoldAll, and "read" before that.
Call(op, path, result, invoked, nodes) ==
  LET follows == last.path = path /\ last.op \in {"fold", "unfold", "toggleFold"}
                   /\ last.result # "Error"
  IN [op |-> op, path |-> path, result |-> result, calls |-> invoked, nodes |-> nodes,
      run |-> IF last.run = "void" \/ result = "Error" \/ op = "reset" THEN "void"
              ELSE IF op \in Mutators THEN "mutated"
              ELSE last.run,
      was |-> FoldedAt(foldState, path),
      after |-> IF follows THEN last.op ELSE "-",
      before |-> IF follows THEN last.was ELSE "-"]

\* changeListeners.forEach(fn => fn.apply(null, args)) for nargs arguments.
Invoked(nargs) == [i \in 1..Len(changeListeners) |-> <<changeListeners[i], nargs>>]

\* The methods that take a path.
PathOps == {"fold", "unfold", "toggleFold", "toggleFoldAll", "isFolded", "isAllFolded"}

\* What a caller passes as path: a new array that holds one of paths.
Passed(paths) == {[path |-> p, again |-> FALSE] : p \in paths}

\* What a caller may pass as well: a value that is not an array, or again the
\* array object it passed to the call before, with what that call left in it.
PassedFreely(paths) ==
  Passed(paths \cup {NotAnArray})
  \cup (IF last.op \in PathOps THEN {[path |-> argument.holds, again |-> TRUE]} ELSE {})

\* One more call is made to the store; there is no store to call when its
\* construction threw.
Called ==
  /\ ~(last.op = "construct" /\ last.result = "Error")
  /\ ncalls < MaxCalls
  /\ ncalls' = ncalls + 1

\* Lines 7-30, the service constructed over what localStorage holds:
\* [tree, threw]. JSON.parse(null) is null, and the default state is taken; a
\* SyntaxError of JSON.parse is not caught, and foldState is never assigned.
Constructed(item) ==
  IF item = Null THEN [tree |-> DefaultTree, threw |-> FALSE] ELSE Parse(item)

Init ==
  /\ localStorage \in InitialStorage
  /\ foldState = Constructed(localStorage).tree
  /\ defaultAliased = (localStorage = Null)
  /\ changeListeners = <<>>
  /\ registered = [fn \in Callbacks |-> 0]
  /\ argument = [holds |-> <<>>, again |-> FALSE]
  /\ ncalls = 0
  /\ last = [op |-> "construct", path |-> <<>>,
             result |-> IF Constructed(localStorage).threw THEN "Error" ELSE Undefined,
             calls |-> <<>>, nodes |-> {}, run |-> "read",
             was |-> "-", after |-> "-", before |-> "-"]

\* throw new TypeError('path should be an array.')
TypeError(op, path, again) ==
  /\ last' = Call(op, path, "Error", <<>>, {})
  /\ argument' = [holds |-> path, again |-> again]
  /\ UNCHANGED <<foldState, defaultAliased, localStorage, changeListeners, registered>>

\* fold, unfold and toggleFold, which hand value to changeFold: unless walkToNode
\* threw, invokeChangeListeners has saved the tree and called the callbacks with
\* (node, value).
Changed(op, path, again, value) ==
  IF ~isArray(path) THEN TypeError(op, path, again)
  ELSE \E c \in {changeFold(foldState, path, value)} :
       /\ foldState' = c.tree
       /\ localStorage' = IF c.saved THEN invokeChangeListeners(c.tree) ELSE localStorage
       /\ last' = Call(op, path, IF c.threw THEN "Error" ELSE Undefined,
                       IF c.saved THEN Invoked(2) ELSE <<>>,
                       IF c.threw THEN {} ELSE {c.node})
       /\ argument' = [holds |-> c.left, again |-> again]
       /\ UNCHANGED <<defaultAliased, changeListeners, registered>>

fold(path, again) ==
  /\ Called
  /\ Changed("fold", path, again, "true")

unfold(path, again) ==
  /\ Called
  /\ Changed("unfold", path, again, "false")

toggleFold(path, again) ==
  /\ Called
  /\ Changed("toggleFold", path, again, Undefined)

\* visit throws for a path that is not an array; it hands a path that does not
\* end with a wildcard to walkToNode, which shifts the keys off it, and leaves
\* any other path as it is.
toggleFoldAll(path, again) ==
  /\ Called
  /\ IF ~isArray(path) THEN TypeError("toggleFoldAll", path, again)
     ELSE \E v \in {visit(foldState, path)} :
          /\ foldState' = v.tree
          /\ localStorage' = IF v.threw THEN localStorage ELSE invokeChangeListeners(v.tree)
          /\ last' = Call("toggleFoldAll", path, IF v.threw THEN "Error" ELSE Undefined,
                          IF v.threw THEN <<>> ELSE Invoked(0), {})
          /\ argument' = [holds |-> IF Last(path) # Wildcard
                                      THEN walkToNode(foldState, path).path ELSE path,
                          again |-> again]
          /\ UNCHANGED <<defaultAliased, changeListeners, registered>>

\* isFolded(path) past its test of the path: [tree, result, node, left], result
\* the $folded of the object walkToNode returns ("Error" when it threw).
isFoldedOf(tree, path) ==
  LET w == walkToNode(tree, path)
  IN [tree |-> w.tree, result |-> IF w.threw THEN "Error" ELSE w.tree[w.node].folded,
      node |-> w.node, left |-> w.path]

isFolded(path, again) ==
  /\ Called
  /\ IF ~isArray(path) THEN TypeError("isFolded", path, again)
     ELSE \E r \in {isFoldedOf(foldState, path)} :
          /\ foldState' = r.tree
          /\ last' = Call("isFolded", path, r.result, <<>>,
                          IF r.result = "Error" THEN {} ELSE {r.node})
          /\ argument' = [holds |-> r.left, again |-> again]
          /\ UNCHANGED <<defaultAliased, localStorage, changeListeners, registered>>

\* isAllFolded reads path with slice and with splice(0, -1), which removes
\* nothing: the array is left as it was passed.
isAllFolded(path, again) ==
  /\ Called
  /\ IF ~isArray(path) THEN TypeError("isAllFolded", path, again)
     ELSE \E r \in {isAllFoldedOf(foldState, path)} :
          /\ foldState' = r.tree
          /\ last' = Call("isAllFolded", path, r.result, <<>>, {})
          /\ argument' = [holds |-> path, again |-> again]
          /\ UNCHANGED <<defaultAliased, localStorage, changeListeners, registered>>

\* changeListeners.add(fn), what the Set would hold had it been an array.
onFoldChangedPush(fn) ==
  /\ ~(last.op = "construct" /\ last.result = "Error")
  /\ registered[fn] < MaxRegistrations
  /\ registered' = [registered EXCEPT ![fn] = @ + 1]
  /\ changeListeners' = Append(changeListeners, fn)
  /\ last' = Call("onFoldChanged", <<>>, Undefined, <<>>, {})
  /\ UNCHANGED <<foldState, defaultAliased, localStorage, argument, ncalls>>

\* changeListeners.add(fn): a Set holds a value once, and forEach visits its
\* values in the order they were first added. registered counts the calls.
onFoldChanged(fn) ==
  /\ ~(last.op = "construct" /\ last.result = "Error")
  /\ registered[fn] < MaxRegistrations
  /\ registered' = [registered EXCEPT ![fn] = @ + 1]
  /\ changeListeners' = IF fn \in Range(changeListeners) THEN changeListeners
                        ELSE Append(changeListeners, fn)
  /\ last' = Call("onFoldChanged", <<>>, Undefined, <<>>, {})
  /\ UNCHANGED <<foldState, defaultAliased, localStorage, argument, ncalls>>

\* A reset that takes the default state for the tree as well, and tells the
\* callbacks.
resetTree ==
  /\ Called
  /\ foldState' = DefaultTree
  /\ localStorage' = Stringify(DefaultTree)
  /\ last' = Call("reset", <<>>, Undefined, Invoked(0), {})
  /\ UNCHANGED <<defaultAliased, changeListeners, registered, argument>>

reset ==
  /\ Called
  /\ localStorage' = Stringify(defaultState)
  /\ last' = Call("reset", <<>>, Undefined, <<>>, {})
  /\ UNCHANGED <<foldState, defaultAliased, changeListeners, registered, argument>>

\* The store called with every path of Paths, each in a new array, by a caller
\* that registers no callback.
Next ==
  \/ \E a \in Passed(Paths) : fold(a.path, a.again)
  \/ \E a \in Passed(Paths) : unfold(a.path, a.again)
  \/ \E a \in Passed(Paths) : toggleFold(a.path, a.again)
  \/ \E a \in Passed(Paths) : toggleFoldAll(a.path, a.again)
  \/ \E a \in Passed(Paths) : isFolded(a.path, a.again)
  \/ \E a \in Passed(Paths) : isAllFolded(a.path, a.again)
  \/ reset

Spec == Init /\ [][Next]_vars

\* The store called with the paths of CallerPaths by a caller that registers
\* callbacks, passes values that are not arrays and passes an array again.
NextCallers ==
  \/ \E a \in PassedFreely(CallerPaths) : fold(a.path, a.again)
  \/ \E a \in PassedFreely(CallerPaths) : unfold(a.path, a.again)
  \/ \E a \in PassedFreely(CallerPaths) : toggleFold(a.path, a.again)
  \/ \E a \in PassedFreely(CallerPaths) : toggleFoldAll(a.path, a.again)
  \/ \E a \in PassedFreely(CallerPaths) : isFolded(a.path, a.again)
  \/ \E a \in PassedFreely(CallerPaths) : isAllFolded(a.path, a.again)
  \/ \E fn \in Callbacks : onFoldChanged(fn)
  \/ reset

SpecCallers == Init /\ [][NextCallers]_vars

\* ------------------------------------------------------------------ claims

\* A non-empty path without a wildcard.
IsNodePath(path) == isArray(path) /\ path # <<>> /\ Wildcard \notin Range(path)

\* The names of the objects an object of the tree holds.
Children(tree, node) == Range(ChildKeys(tree[node].props))

\* C1: isFolded(p) called right after fold(p), p a non-empty path without a
\* wildcard, returns true, whether or not the nodes along p existed.
C1_FoldThenIsFolded ==
  (last.op = "isFolded" /\ last.after = "fold" /\ IsNodePath(last.path))
    => last.result = "true"

\* C2: isFolded(p) called right after unfold(p), p a non-empty path without a
\* wildcard, returns false, whether or not the nodes along p existed.
C2_UnfoldThenIsFolded ==
  (last.op = "isFolded" /\ last.after = "unfold" /\ IsNodePath(last.path))
    => last.result = "false"

\* C2's case: unfold and then isFolded of a two-key path that led to no node.
C2_Witness ==
  /\ last.op = "isFolded" /\ last.after = "unfold" /\ last.before = "none"
  /\ Len(last.path) = 2 /\ last.result = "false"

\* C3: toggleFoldAll(['paths', '*']), called when the node at ['paths'] exists,
\* flips the $folded value of every child of that node.
C3_ToggleFoldAllFlipsChildren ==
  [][(last'.op = "toggleFoldAll" /\ last'.path = <<"paths", Wildcard>>
        /\ <<"paths">> \in DOMAIN foldState)
       => \A k \in Children(foldState, <<"paths">>) :
            FoldedAt(foldState', <<"paths", k>>) = Not(FoldedAt(foldState, <<"paths", k>>))]_vars

\* The four nodes a.x.p, a.x.q, a.y.p and a.y.q.
ChainLeaves == {<<"a", i, j>> : i \in {"x", "y"}, j \in {"p", "q"}}

\* The tree holds a: {x: {p, q}, y: {p, q}} and nothing else under a.
IsChainTree(tree) ==
  /\ <<"a">> \in DOMAIN tree
  /\ Children(tree, <<"a">>) = {"x", "y"}
  /\ \A i \in {"x", "y"} : Children(tree, <<"a", i>>) = {"p", "q"}
  /\ \A leaf \in ChainLeaves : Children(tree, leaf) = {}

\* C4: in a tree that holds a: {x: {p, q}, y: {p, q}}, toggleFoldAll(['a', '*',
\* '*']) flips the $folded value of the four nodes a.x.p, a.x.q, a.y.p and a.y.q
\* and of no other node.
C4_ChainedWildcards ==
  [][(last'.op = "toggleFoldAll" /\ last'.path = <<"a", Wildcard, Wildcard>>
        /\ IsChainTree(foldState))
       => /\ \A leaf \in ChainLeaves :
               FoldedAt(foldState', leaf) = Not(FoldedAt(foldState, leaf))
          /\ \A node \in DOMAIN foldState \ ChainLeaves :
               FoldedAt(foldState', node) = FoldedAt(foldState, node)]_vars

\* C5: isAllFolded(['paths', '*']), called when the node at ['paths'] exists,
\* returns true if and only if every child of that node has $folded false (true
\* when it has no child).
C5_IsAllFoldedOfChildren ==
  [][(last'.op = "isAllFolded" /\ last'.path = <<"paths", Wildcard>>
        /\ <<"paths">> \in DOMAIN foldState)
       => (last'.result = "true"
            <=> \A k \in Children(foldState, <<"paths">>) :
                  FoldedAt(foldState, <<"paths", k>>) = "false")]_vars

\* C6: isAllFolded(prefix + ['*']) returns false when no node is at prefix at the
\* time of the call.
C6_IsAllFoldedOfMissing ==
  [][(last'.op = "isAllFolded" /\ Wildcard \in Range(last'.path)
        /\ IsNodePath(PathToRoot(last'.path))
        /\ RestOfPath(last'.path) = <<Wildcard>>
        /\ PathToRoot(last'.path) \notin DOMAIN foldState)
       => last'.result = "false"]_vars

\* C7: isFolded(p), p without a wildcard, returns the $folded value of the node
\* at p when there is one, and undefined when there is none.
C7_IsFoldedOfNode ==
  (last.op = "isFolded" /\ isArray(last.path) /\ Wildcard \notin Range(last.path))
    => last.result = (IF last.was = "none" THEN Undefined ELSE last.was)

\* C8: after toggleFold(p) twice in a row, p without a wildcard, the node at p is
\* folded exactly if it was before the two calls (a node that was not there
\* counts as unfolded).
C8_ToggleTwice ==
  (last.op = "toggleFold" /\ last.after = "toggleFold" /\ Wildcard \notin Range(last.path))
    => (FoldedAt(foldState, last.path) = "true" <=> last.before = "true")

\* C9: after reset(), localStorage holds the default tree, the five sections
\* each unfolded, whatever was called before.
C9_ResetStoresDefault ==
  last.op = "reset" => localStorage = Stringify(DefaultTree)

\* The path of each section of the default state.
SectionPaths == {<<Sections[i]>> : i \in 1..Len(Sections)}

\* C10: in a store constructed over an empty localStorage, the first call
\* isFolded([s]) returns false for each section s.
C10_SectionsUnfolded ==
  (last.op = "isFolded" /\ ncalls = 1 /\ defaultAliased /\ last.path \in SectionPaths)
    => last.result = "false"

\* C11: when localStorage holds a text that JSON.parse rejects, the construction
\* does not throw and the tree is the default tree, as for an empty localStorage.
C11_ConstructionFailsOpen ==
  (last.op = "construct" /\ localStorage # Null /\ Parse(localStorage).threw)
    => (last.result # "Error" /\ foldState = DefaultTree)

\* C12: after calls that all returned, none of them reset and at least one of
\* them fold, unfold, toggleFold or toggleFoldAll, localStorage holds the text
\* of the tree in memory; isFolded and isAllFolded do not make the two differ.
C12_StoredIsTree ==
  last.run = "mutated" => localStorage = Stringify(foldState)

\* The number of times a call invoked the callback fn.
Times(fn, calls) == Cardinality({i \in 1..Len(calls) : calls[i][1] = fn})

\* C13: a call of fold, unfold, toggleFold or toggleFoldAll that returns has
\* invoked each callback handed to onFoldChanged before it exactly once, however
\* many times the callback was handed over and however many nodes toggleFoldAll
\* matched, and has invoked no other callback.
C13_InvokedOnce ==
  (last.op \in Mutators /\ last.result # "Error")
    => \A fn \in Callbacks : Times(fn, last.calls) = (IF registered[fn] > 0 THEN 1 ELSE 0)

\* C13's case: toggleFoldAll over the two children of a, after cb1 was handed to
\* onFoldChanged twice and cb2 never.
C13_Witness ==
  /\ last.op = "toggleFoldAll" /\ last.path = <<"a", Wildcard>> /\ last.result # "Error"
  /\ <<"a", "x">> \in DOMAIN foldState /\ <<"a", "y">> \in DOMAIN foldState
  /\ registered["cb1"] = 2 /\ registered["cb2"] = 0
  /\ last.calls = << <<"cb1", 0>> >>

\* C14: a store constructed over the text of the tree in memory answers
\* isFolded(p) as this store does, for every path p without a wildcard.
C14_RoundTrip ==
  ~(last.op = "construct" /\ last.result = "Error")
    => LET reloaded == Constructed(Stringify(foldState))
       IN /\ ~reloaded.threw
          /\ \A p \in ConcretePaths :
               isFoldedOf(reloaded.tree, p).result = isFoldedOf(foldState, p).result

\* C14's case: after two calls, the second a toggleFold, the tree holds a folded
\* and an unfolded node that the reloaded tree holds as well.
C14_Witness ==
  /\ ncalls = 2 /\ last.op = "toggleFold" /\ last.result # "Error"
  /\ \E p, q \in ConcretePaths :
       /\ isFoldedOf(foldState, p).result = "true"
       /\ isFoldedOf(Constructed(Stringify(foldState)).tree, p).result = "true"
       /\ isFoldedOf(foldState, q).result = "false"
       /\ isFoldedOf(Constructed(Stringify(foldState)).tree, q).result = "false"

\* C15: fold, unfold, toggleFold, isFolded or isAllFolded called with a path that
\* is not an array throws, and leaves the tree and localStorage as they were and
\* every callback uninvoked.
C15_NotAnArrayThrows ==
  [][(last'.op \in {"fold", "unfold", "toggleFold", "isFolded", "isAllFolded"}
        /\ last'.path = NotAnArray)
       => /\ last'.result = "Error"
          /\ foldState' = foldState
          /\ localStorage' = localStorage
          /\ last'.calls = <<>>]_vars

\* C15's case: toggleFold of a value that is not an array has thrown, in a store
\* that holds a callback and has saved a tree before.
C15_Witness ==
  /\ last.op = "toggleFold" /\ last.path = NotAnArray /\ last.result = "Error"
  /\ changeListeners # <<>> /\ ncalls = 2 /\ localStorage = Stringify(foldState)

\* C16: after a call that resolved a path p without a wildcard, some key of
\* which led to no node, a node is at every non-empty prefix of p, p included,
\* and each of them that was created by the call is unfolded.
C16_PrefixesExist ==
  [][(last'.op \in PathOps /\ last'.result # "Error" /\ IsNodePath(last'.path)
        /\ last'.path \notin DOMAIN foldState)
       => \A i \in 1..Len(last'.path) :
            LET prefix == SubSeq(last'.path, 1, i)
            IN /\ prefix \in DOMAIN foldState'
               /\ prefix \notin DOMAIN foldState => foldState'[prefix].folded = "false"]_vars

\* The methods that resolve their path to one node with walkToNode.
NodeOps == {"fold", "unfold", "toggleFold", "isFolded"}

\* The longest prefix of path that leads to a node of the tree: the node the
\* resolution of path is on when it first misses a key.
Reached(tree, path) ==
  LET n == CHOOSE i \in 0..Len(path) :
             /\ SubSeq(path, 1, i) \in DOMAIN tree
             /\ i < Len(path) => SubSeq(path, 1, i + 1) \notin DOMAIN tree
  IN SubSeq(path, 1, n)

\* node is a proper prefix of path: an ancestor of the position path addresses.
IsAncestor(node, path) == Len(node) < Len(path) /\ node = SubSeq(path, 1, Len(node))

EndingWithWildcard == {p \in WildcardPaths : Last(p) = Wildcard}

C19_EveryNodeMarked ==
  defaultAliased
    => \A node \in DOMAIN foldState :
         /\ Marker \in Range(foldState[node].props)
         /\ foldState[node].folded \in {"true", "false"}

\* C20: when fold, unfold, toggleFold or isFolded returns, the array it was
\* passed as path is empty; passed again to one of them, that array addresses
\* the root of the tree.
C20_PathConsumed ==
  [][(last'.op \in NodeOps /\ last'.result # "Error")
       => /\ argument'.holds = <<>>
          /\ (argument'.again /\ last.op \in NodeOps /\ last.result # "Error")
               => (last'.path = <<>> /\ last'.nodes = {<<>>})]_vars

\* C20's case: in a new store a call has resolved ['paths'] and folded the node
\* it got, and isFolded, passed the same array, has answered for the root.
C20_Witness ==
  /\ defaultAliased /\ ncalls = 2 /\ last.run = "mutated"
  /\ last.op = "isFolded" /\ argument.again /\ argument.holds = <<>>
  /\ last.path = <<>> /\ last.nodes = {<<>>} /\ last.result = "true"
  /\ <<"paths">> \in DOMAIN foldState

====
